---- MODULE Spec2Model ----
(***************************************************************************)
(* Concert booking / billing ledger.                                       *)
(*                                                                         *)
(* The store is the MongoDB database shared by the Flask handlers of       *)
(* app.py and by the CRUD classes of crud_operations.py: both open the     *)
(* collections named 'concerts' and 'bookings'.  A document is a function  *)
(* from field names to values, so that a field a writer never set is       *)
(* absent from the document's domain, as it is in the store.               *)
(*                                                                         *)
(* Every handler and every CRUD method is one action: it runs to           *)
(* completion before the next one starts.  The booking handlers are also   *)
(* modelled call by call, one worker per request, so that the store calls  *)
(* of two requests can interleave.                                         *)
(***************************************************************************)
EXTENDS Integers, FiniteSets, Sequences, TLC

VARIABLES concerts, bookings, nextConcert, nextBooking, last, steps,
          customers, invoices, nextInvoice, now, threads

vars == <<concerts, bookings, nextConcert, nextBooking, last, steps,
          customers, invoices, nextInvoice, now, threads>>

(* The collections and the clock that the concert and booking operations   *)
(* leave alone, and the requests other workers have in progress            *)
billing == <<customers, invoices, nextInvoice, now, threads>>

----------------------------------------------------------------------------
(* Bounds of the model *)

MaxConcerts == 2
MaxBookings == 2
MaxSeats == 2
MaxTickets == 2
MaxSteps == 4
MaxInvoices == 2
MaxClock == 1001000

(* The clock counts microseconds, the resolution of datetime.now() *)
MicrosPerMilli == 1000
MicrosPerSecond == 1000000

(* Values a request can carry *)
SeatCounts == 0..MaxSeats
TicketCounts == (0 - 1)..MaxTickets
Prices == {1, 2}
Customers == {"ann", "bob"}
Statuses == {"confirmed", "cancelled"}

(* Identities the store has handed out so far (ObjectIds are never reused) *)
ConcertIds == 1..(nextConcert - 1)
BookingIds == 1..(nextBooking - 1)

----------------------------------------------------------------------------
(* Store primitives *)

(* insert_one: a new document under a fresh identity *)
InsertOne(coll, id, doc) ==
    [i \in DOMAIN coll \cup {id} |-> IF i = id THEN doc ELSE coll[i]]

(* delete_one({'_id': id}) *)
DeleteOne(coll, id) == [i \in DOMAIN coll \ {id} |-> coll[i]]

(* the document after {'$set': upd}: supplied fields overwrite or are added *)
SetFields(doc, upd) ==
    [f \in DOMAIN doc \cup DOMAIN upd |-> IF f \in DOMAIN upd THEN upd[f] ELSE doc[f]]

(* update_one({'_id': id}, {'$set': upd}); no match leaves the collection alone *)
UpdateSet(coll, id, upd) ==
    IF id \in DOMAIN coll
    THEN [coll EXCEPT ![id] = SetFields(coll[id], upd)]
    ELSE coll

(* the field overwritten with k instead of incremented by it *)
UpdateInc_overwrites(coll, id, f, k) ==
    IF id \in DOMAIN coll
    THEN [coll EXCEPT ![id] = [@ EXCEPT ![f] = k]]
    ELSE coll

(* update_one({'_id': id}, {'$inc': {f: k}}) *)
UpdateInc(coll, id, f, k) ==
    IF id \in DOMAIN coll
    THEN [coll EXCEPT ![id] = [@ EXCEPT ![f] = @ + k]]
    ELSE coll

(* matched_count: 1 iff the document exists, changed or not *)
MatchedCount(coll, id, upd) == IF id \in DOMAIN coll THEN 1 ELSE 0

(* modified_count of a $set: 1 iff the document exists and a value changed *)
ModifiedCount(coll, id, upd) ==
    IF id \in DOMAIN coll /\ SetFields(coll[id], upd) # coll[id] THEN 1 ELSE 0

(* Python's None; every other value a date field takes is a clock reading *)
None == 0 - 1

(* A datetime as the store keeps it: BSON dates count whole milliseconds,   *)
(* the microseconds below that are dropped when the document is encoded    *)
BsonDate(t) == IF t = None THEN None ELSE t - (t % MicrosPerMilli)

DateFields == {"created_at", "issue_date", "payment_date"}

(* A document (or a $set operand) as it is encoded for the store *)
Bson(doc) == [f \in DOMAIN doc |-> IF f \in DateFields THEN BsonDate(doc[f]) ELSE doc[f]]

(* A concert reference as app.py stores it (the id's string form) and as   *)
(* models.Booking stores it (the ObjectId itself).                         *)
StrId(c) == [kind |-> "str", id |-> c]
OidRef(c) == [kind |-> "oid", id |-> c]

(* bson ObjectId(x): accepts the string form and an ObjectId alike *)
ObjectId(x) == x.id

----------------------------------------------------------------------------
(* The workers of the development server (app.run serves each request in  *)
(* its own thread) and a worker with no request in progress                *)
Workers == {"w1", "w2"}
Idle == [pc |-> "idle"]

(* Initial state: an empty database *)

Init ==
    /\ concerts = << >>
    /\ bookings = << >>
    /\ nextConcert = 1
    /\ nextBooking = 1
    /\ last = [op |-> "none"]
    /\ steps = 0
    /\ customers = << >>
    /\ invoices = << >>
    /\ nextInvoice = 1
    /\ now = 0
    /\ threads = [t \in Workers |-> Idle]

(* One request served; the model stops after MaxSteps of them *)
Tick == steps < MaxSteps /\ steps' = steps + 1

----------------------------------------------------------------------------
(* Flask handlers of app.py.  A handler's body is wrapped in               *)
(* try/except Exception: an exception raised half way keeps the writes      *)
(* already made and flashes an error.                                      *)

(* POST /concerts/add *)
add_concert(p, s) ==
    /\ Tick
    /\ UNCHANGED billing
    /\ nextConcert <= MaxConcerts
    /\ concerts' = InsertOne(concerts, nextConcert,
                             [ticket_price |-> p, total_seats |-> s, available_seats |-> s])
    /\ nextConcert' = nextConcert + 1
    /\ last' = [op |-> "add_concert", id |-> nextConcert, flash |-> "added"]
    /\ UNCHANGED <<bookings, nextBooking>>

(* POST /concerts/edit/<concert_id>: $set of the form fields; available_seats *)
(* is not among them.  updated_at is set to now(), so an existing concert   *)
(* always counts as modified.                                              *)
edit_concert(c, p, s) ==
    /\ Tick
    /\ UNCHANGED billing
    /\ concerts' = UpdateSet(concerts, c, [ticket_price |-> p, total_seats |-> s])
    /\ last' = [op |-> "edit_concert", id |-> c,
                flash |-> IF c \in DOMAIN concerts THEN "updated" ELSE "no_changes"]
    /\ UNCHANGED <<bookings, nextConcert, nextBooking>>

(* count_documents({'concert_id': concert_id}) with the id string of the URL *)
BookingCount(c) == Cardinality({b \in DOMAIN bookings : bookings[b].concert_id = StrId(c)})

(* POST /concerts/delete/<concert_id> *)
delete_concert(c) ==
    /\ Tick
    /\ UNCHANGED billing
    /\ IF BookingCount(c) > 0
       THEN /\ UNCHANGED concerts
            /\ last' = [op |-> "delete_concert", id |-> c, flash |-> "has_bookings"]
       ELSE /\ concerts' = DeleteOne(concerts, c)
            /\ last' = [op |-> "delete_concert", id |-> c,
                        flash |-> IF c \in DOMAIN concerts THEN "deleted" ELSE "not_found"]
    /\ UNCHANGED <<bookings, nextConcert, nextBooking>>

(* the availability test left out *)
add_booking_rejects_never(concert, num_tickets) == FALSE

(* add_booking's availability test: concert['available_seats'] < num_tickets *)
add_booking_rejects(concert, num_tickets) == concert.available_seats < num_tickets

(* the seat update forgotten *)
add_booking_inc_forgotten(num_tickets) == 0

(* add_booking's seat update: {'$inc': {'available_seats': -num_tickets}} *)
add_booking_inc(num_tickets) == 0 - num_tickets

(* POST /bookings/add *)
add_booking(c, n, cust) ==
    LET req == [op |-> "add_booking", id |-> c, n |-> n, cust |-> cust] IN
    /\ Tick
    /\ UNCHANGED billing
    /\ IF c \notin DOMAIN concerts
       THEN /\ last' = req @@ [flash |-> "concert_not_found"]
            /\ UNCHANGED <<concerts, bookings, nextBooking>>
       ELSE IF add_booking_rejects(concerts[c], n)
       THEN /\ last' = req @@ [flash |-> "insufficient"]
            /\ UNCHANGED <<concerts, bookings, nextBooking>>
       ELSE IF "ticket_price" \notin DOMAIN concerts[c]
       THEN \* concert['ticket_price'] raises KeyError before any write
            /\ last' = req @@ [flash |-> "exception"]
            /\ UNCHANGED <<concerts, bookings, nextBooking>>
       ELSE /\ nextBooking <= MaxBookings
            /\ bookings' = InsertOne(bookings, nextBooking,
                               [concert_id |-> StrId(c),
                                customer_name |-> cust,
                                num_tickets |-> n,
                                ticket_price |-> concerts[c].ticket_price,
                                total_amount |-> concerts[c].ticket_price * n,
                                status |-> "confirmed"])
            /\ concerts' = UpdateInc(concerts, c, "available_seats", add_booking_inc(n))
            /\ nextBooking' = nextBooking + 1
            /\ last' = req @@ [flash |-> "confirmed"]
    /\ UNCHANGED nextConcert

(* the test made against the concert's capacity instead of its free seats *)
edit_booking_rejects_capacity(concert, ticket_difference) ==
    ticket_difference > 0 /\ concert.total_seats < ticket_difference

(* edit_booking's availability test *)
edit_booking_rejects(concert, ticket_difference) ==
    ticket_difference > 0 /\ concert.available_seats < ticket_difference

(* the seat update with the sign dropped *)
edit_booking_inc_unsigned(ticket_difference) == ticket_difference

(* edit_booking's seat update: {'$inc': {'available_seats': -ticket_difference}} *)
edit_booking_inc(ticket_difference) == 0 - ticket_difference

(* POST /bookings/edit/<booking_id> *)
edit_booking(b, n, cust, st) ==
    LET req == [op |-> "edit_booking", id |-> b, n |-> n, cust |-> cust, status |-> st] IN
    /\ Tick
    /\ UNCHANGED billing
    /\ IF b \notin DOMAIN bookings
       THEN /\ last' = req @@ [flash |-> "booking_not_found"]
            /\ UNCHANGED <<concerts, bookings>>
       ELSE IF "num_tickets" \notin DOMAIN bookings[b]
       THEN \* booking['num_tickets'] raises KeyError
            /\ last' = req @@ [flash |-> "exception"]
            /\ UNCHANGED <<concerts, bookings>>
       ELSE
         LET booking == bookings[b]
             c == ObjectId(booking.concert_id)
             ticket_difference == n - booking.num_tickets
         IN
         IF c \notin DOMAIN concerts
         THEN \* concert is None: subscripting it raises TypeError
              /\ last' = req @@ [flash |-> "exception"]
              /\ UNCHANGED <<concerts, bookings>>
         ELSE IF edit_booking_rejects(concerts[c], ticket_difference)
         THEN /\ last' = req @@ [flash |-> "insufficient", diff |-> ticket_difference]
              /\ UNCHANGED <<concerts, bookings>>
         ELSE IF "ticket_price" \notin DOMAIN concerts[c]
         THEN /\ last' = req @@ [flash |-> "exception"]
              /\ UNCHANGED <<concerts, bookings>>
         ELSE /\ bookings' = UpdateSet(bookings, b,
                                 [customer_name |-> cust,
                                  num_tickets |-> n,
                                  total_amount |-> concerts[c].ticket_price * n,
                                  status |-> st])
              /\ concerts' = UpdateInc(concerts, c, "available_seats",
                                        edit_booking_inc(ticket_difference))
              /\ last' = req @@ [flash |-> "updated", diff |-> ticket_difference]
    /\ UNCHANGED <<nextConcert, nextBooking>>

(* one seat given back per deleted booking, whatever its quantity *)
delete_booking_inc_one(booking) == 1

(* delete_booking's seat update: {'$inc': {'available_seats': booking['num_tickets']}} *)
delete_booking_inc(booking) == booking.num_tickets

(* POST /bookings/delete/<booking_id>: the booking is deleted before the    *)
(* arguments of the seat update are evaluated.                             *)
delete_booking(b) ==
    LET req == [op |-> "delete_booking", id |-> b] IN
    /\ Tick
    /\ UNCHANGED billing
    /\ IF b \notin DOMAIN bookings
       THEN /\ last' = req @@ [flash |-> "booking_not_found"]
            /\ UNCHANGED <<concerts, bookings>>
       ELSE /\ bookings' = DeleteOne(bookings, b)
            /\ IF "num_tickets" \notin DOMAIN bookings[b]
               THEN \* booking['num_tickets'] raises KeyError after the delete
                    /\ last' = req @@ [flash |-> "exception"]
                    /\ UNCHANGED concerts
               ELSE /\ concerts' = UpdateInc(concerts, ObjectId(bookings[b].concert_id),
                                             "available_seats", delete_booking_inc(bookings[b]))
                    /\ last' = req @@ [flash |-> "cancelled"]
    /\ UNCHANGED <<nextConcert, nextBooking>>

----------------------------------------------------------------------------
(* CRUD classes of crud_operations.py, with the documents models.py writes *)

(* Concert.to_dict of a freshly constructed Concert: a tier->price mapping  *)
(* instead of a single ticket_price, and available_seats = total_seats     *)
Concert_to_dict(p, s) ==
    [ticket_prices |-> [Regular |-> p], total_seats |-> s, available_seats |-> s,
     created_at |-> now]

(* Booking.to_dict of a freshly constructed Booking *)
Booking_to_dict(cust, c, q, u) ==
    [customer_id |-> cust,
     concert_id |-> OidRef(c),
     quantity |-> q,
     unit_price |-> u,
     total_amount |-> q * u,
     status |-> "confirmed"]

(* ConcertCRUD.create_concert *)
ConcertCRUD_create_concert(p, s) ==
    /\ Tick
    /\ UNCHANGED billing
    /\ nextConcert <= MaxConcerts
    /\ concerts' = InsertOne(concerts, nextConcert, Bson(Concert_to_dict(p, s)))
    /\ nextConcert' = nextConcert + 1
    /\ last' = [op |-> "ConcertCRUD.create_concert", id |-> nextConcert, ret |-> nextConcert,
                entity |-> Concert_to_dict(p, s)]
    /\ UNCHANGED <<bookings, nextBooking>>

(* ConcertCRUD.delete_concert: deletes whatever references the concert *)
ConcertCRUD_delete_concert(c) ==
    /\ Tick
    /\ UNCHANGED billing
    /\ concerts' = DeleteOne(concerts, c)
    /\ last' = [op |-> "ConcertCRUD.delete_concert", id |-> c, ret |-> (c \in DOMAIN concerts)]
    /\ UNCHANGED <<bookings, nextConcert, nextBooking>>

(* ConcertCRUD.update_available_seats: $inc by -seats_booked, no range check. *)
(* The guard only keeps the counter inside the model's range.              *)
ConcertCRUD_update_available_seats(c, seats_booked) ==
    /\ Tick
    /\ UNCHANGED billing
    /\ c \in DOMAIN concerts =>
           /\ concerts[c].available_seats - seats_booked >= 0 - MaxSeats
           /\ concerts[c].available_seats - seats_booked <= 2 * MaxSeats
    /\ concerts' = UpdateInc(concerts, c, "available_seats", 0 - seats_booked)
    /\ last' = [op |-> "ConcertCRUD.update_available_seats", id |-> c, n |-> seats_booked,
                ret |-> (c \in DOMAIN concerts /\ seats_booked # 0)]
    /\ UNCHANGED <<bookings, nextConcert, nextBooking>>

(* BookingCRUD.create_booking: a plain insert *)
BookingCRUD_create_booking(cust, c, q, u) ==
    /\ Tick
    /\ UNCHANGED billing
    /\ c \in ConcertIds
    /\ nextBooking <= MaxBookings
    /\ bookings' = InsertOne(bookings, nextBooking, Booking_to_dict(cust, c, q, u))
    /\ nextBooking' = nextBooking + 1
    /\ last' = [op |-> "BookingCRUD.create_booking", id |-> c, n |-> q, ret |-> nextBooking]
    /\ UNCHANGED <<concerts, nextConcert>>

(* Partial updates a caller passes to BookingCRUD.update_booking *)
BookingUpdates ==
    {[status |-> st] : st \in Statuses} \cup {[quantity |-> q] : q \in 1..MaxTickets}

(* BookingCRUD.update_booking: $set of the supplied fields, nothing else *)
BookingCRUD_update_booking(b, update_data) ==
    /\ Tick
    /\ UNCHANGED billing
    /\ bookings' = UpdateSet(bookings, b, update_data)
    /\ last' = [op |-> "BookingCRUD.update_booking", id |-> b, upd |-> update_data,
                ret |-> (ModifiedCount(bookings, b, update_data) > 0)]
    /\ UNCHANGED <<concerts, nextConcert, nextBooking>>

(* BookingCRUD.cancel_booking = update_booking(id, {"status": "cancelled"}) *)
BookingCRUD_cancel_booking(b) ==
    /\ Tick
    /\ UNCHANGED billing
    /\ bookings' = UpdateSet(bookings, b, [status |-> "cancelled"])
    /\ last' = [op |-> "BookingCRUD.cancel_booking", id |-> b,
                ret |-> (ModifiedCount(bookings, b, [status |-> "cancelled"]) > 0)]
    /\ UNCHANGED <<concerts, nextConcert, nextBooking>>

(* BookingCRUD.delete_booking *)
BookingCRUD_delete_booking(b) ==
    /\ Tick
    /\ UNCHANGED billing
    /\ bookings' = DeleteOne(bookings, b)
    /\ last' = [op |-> "BookingCRUD.delete_booking", id |-> b, ret |-> (b \in DOMAIN bookings)]
    /\ UNCHANGED <<concerts, nextConcert, nextBooking>>

(* One round of the booking loop of main.create_sample_data:               *)
(* create_booking(booking), then update_available_seats(concert, quantity) *)
create_sample_data(cust, c, q, u) ==
    /\ Tick
    /\ UNCHANGED billing
    /\ c \in ConcertIds
    /\ nextBooking <= MaxBookings
    /\ bookings' = InsertOne(bookings, nextBooking, Booking_to_dict(cust, c, q, u))
    /\ nextBooking' = nextBooking + 1
    /\ concerts' = UpdateInc(concerts, c, "available_seats", 0 - q)
    /\ last' = [op |-> "create_sample_data", id |-> c, n |-> q, ret |-> nextBooking]
    /\ UNCHANGED nextConcert

----------------------------------------------------------------------------
(* Requests may name any identity, stored or not *)
AnyConcert == 1..MaxConcerts
AnyBooking == 1..MaxBookings

WebNext ==
    \/ \E p \in Prices, s \in SeatCounts : add_concert(p, s)
    \/ \E c \in AnyConcert, p \in Prices, s \in SeatCounts : edit_concert(c, p, s)
    \/ \E c \in AnyConcert : delete_concert(c)
    \/ \E c \in AnyConcert, n \in TicketCounts, cust \in Customers : add_booking(c, n, cust)
    \/ \E b \in AnyBooking, n \in TicketCounts, cust \in Customers, st \in Statuses :
           edit_booking(b, n, cust, st)
    \/ \E b \in AnyBooking : delete_booking(b)

CrudNext ==
    \/ \E p \in Prices, s \in SeatCounts : ConcertCRUD_create_concert(p, s)
    \/ \E c \in AnyConcert : ConcertCRUD_delete_concert(c)
    \/ \E c \in AnyConcert, k \in TicketCounts : ConcertCRUD_update_available_seats(c, k)
    \/ \E cust \in Customers, c \in AnyConcert, q \in 1..MaxTickets, u \in Prices :
           BookingCRUD_create_booking(cust, c, q, u)
    \/ \E b \in AnyBooking, upd \in BookingUpdates : BookingCRUD_update_booking(b, upd)
    \/ \E b \in AnyBooking : BookingCRUD_cancel_booking(b)
    \/ \E b \in AnyBooking : BookingCRUD_delete_booking(b)
    \/ \E cust \in Customers, c \in AnyConcert, q \in 1..MaxTickets, u \in Prices :
           create_sample_data(cust, c, q, u)

Next == WebNext \/ CrudNext

Spec == Init /\ [][Next]_vars

(* The web application alone *)
SpecWeb == Init /\ [][WebNext]_vars

(* Concert creation and booking creation only: the states reached after any *)
(* number of booking creations and nothing else                            *)
(* The booking handlers call by call.  A worker takes a request, and each   *)
(* of its steps is one call on the store together with the local           *)
(* computation up to the next call; what a call returned is kept in the    *)
(* worker's record.  The steps of different workers interleave.            *)

ledger == <<customers, invoices, nextInvoice, now>>

(* add_booking, app.py:203-217: find_one of the concert and the checks *)
add_booking_find(t, c, n, cust) ==
    LET req == [op |-> "add_booking", id |-> c, n |-> n, cust |-> cust, worker |-> t] IN
    /\ Tick
    /\ threads[t] = Idle
    /\ IF c \notin DOMAIN concerts
       THEN /\ last' = req @@ [flash |-> "concert_not_found"]
            /\ UNCHANGED threads
       ELSE IF add_booking_rejects(concerts[c], n)
       THEN /\ last' = req @@ [flash |-> "insufficient"]
            /\ UNCHANGED threads
       ELSE IF "ticket_price" \notin DOMAIN concerts[c]
       THEN /\ last' = req @@ [flash |-> "exception"]
            /\ UNCHANGED threads
       ELSE /\ threads' = [threads EXCEPT ![t] =
                               [pc |-> "add_insert", req |-> req, concert |-> concerts[c]]]
            /\ UNCHANGED last
    /\ UNCHANGED <<concerts, bookings, nextConcert, nextBooking, ledger>>

(* add_booking, app.py:219-236: insert_one of the booking *)
add_booking_insert(t) ==
    LET th == threads[t] IN
    /\ th.pc = "add_insert"
    /\ nextBooking <= MaxBookings
    /\ bookings' = InsertOne(bookings, nextBooking,
                       [concert_id |-> StrId(th.req.id),
                        customer_name |-> th.req.cust,
                        num_tickets |-> th.req.n,
                        ticket_price |-> th.concert.ticket_price,
                        total_amount |-> th.concert.ticket_price * th.req.n,
                        status |-> "confirmed"])
    /\ nextBooking' = nextBooking + 1
    /\ threads' = [threads EXCEPT ![t] = [th EXCEPT !.pc = "add_inc"]]
    /\ UNCHANGED <<concerts, nextConcert, last, steps, ledger>>

(* add_booking, app.py:238-245: update_one of the concert, then the flash *)
add_booking_update(t) ==
    LET th == threads[t] IN
    /\ th.pc = "add_inc"
    /\ concerts' = UpdateInc(concerts, th.req.id, "available_seats",
                              add_booking_inc(th.req.n))
    /\ last' = th.req @@ [flash |-> "confirmed"]
    /\ threads' = [threads EXCEPT ![t] = Idle]
    /\ UNCHANGED <<bookings, nextConcert, nextBooking, steps, ledger>>

(* edit_booking, app.py:253-262: find_one of the booking *)
edit_booking_find(t, b, n, cust, st) ==
    LET req == [op |-> "edit_booking", id |-> b, n |-> n, cust |-> cust,
                status |-> st, worker |-> t] IN
    /\ Tick
    /\ threads[t] = Idle
    /\ IF b \notin DOMAIN bookings
       THEN /\ last' = req @@ [flash |-> "booking_not_found"]
            /\ UNCHANGED threads
       ELSE IF "num_tickets" \notin DOMAIN bookings[b]
       THEN /\ last' = req @@ [flash |-> "exception"]
            /\ UNCHANGED threads
       ELSE /\ threads' = [threads EXCEPT ![t] =
                               [pc |-> "edit_find_concert", req |-> req,
                                booking |-> bookings[b],
                                ticket_difference |-> n - bookings[b].num_tickets]]
            /\ UNCHANGED last
    /\ UNCHANGED <<concerts, bookings, nextConcert, nextBooking, ledger>>

(* edit_booking, app.py:264-273: find_one of the concert and the checks *)
edit_booking_find_concert(t) ==
    LET th == threads[t]
        c == ObjectId(th.booking.concert_id)
    IN
    /\ th.pc = "edit_find_concert"
    /\ IF c \notin DOMAIN concerts
       THEN /\ last' = th.req @@ [flash |-> "exception"]
            /\ threads' = [threads EXCEPT ![t] = Idle]
       ELSE IF edit_booking_rejects(concerts[c], th.ticket_difference)
       THEN /\ last' = th.req @@ [flash |-> "insufficient", diff |-> th.ticket_difference]
            /\ threads' = [threads EXCEPT ![t] = Idle]
       ELSE IF "ticket_price" \notin DOMAIN concerts[c]
       THEN /\ last' = th.req @@ [flash |-> "exception"]
            /\ threads' = [threads EXCEPT ![t] = Idle]
       ELSE /\ threads' = [threads EXCEPT ![t] =
                               [pc |-> "edit_set", req |-> th.req, booking |-> th.booking,
                                ticket_difference |-> th.ticket_difference,
                                new_total |-> concerts[c].ticket_price * th.req.n]]
            /\ UNCHANGED last
    /\ UNCHANGED <<concerts, bookings, nextConcert, nextBooking, steps, ledger>>

(* edit_booking, app.py:275-290: update_one of the booking; a booking that  *)
(* is gone matches nothing                                                 *)
edit_booking_set(t) ==
    LET th == threads[t] IN
    /\ th.pc = "edit_set"
    /\ bookings' = UpdateSet(bookings, th.req.id,
                             [customer_name |-> th.req.cust,
                              num_tickets |-> th.req.n,
                              total_amount |-> th.new_total,
                              status |-> th.req.status])
    /\ threads' = [threads EXCEPT ![t] = [th EXCEPT !.pc = "edit_inc"]]
    /\ UNCHANGED <<concerts, nextConcert, nextBooking, last, steps, ledger>>

(* edit_booking, app.py:292-299: update_one of the concert, then the flash *)
edit_booking_update(t) ==
    LET th == threads[t] IN
    /\ th.pc = "edit_inc"
    /\ concerts' = UpdateInc(concerts, ObjectId(th.booking.concert_id), "available_seats",
                              edit_booking_inc(th.ticket_difference))
    /\ last' = th.req @@ [flash |-> "updated", diff |-> th.ticket_difference]
    /\ threads' = [threads EXCEPT ![t] = Idle]
    /\ UNCHANGED <<bookings, nextConcert, nextBooking, steps, ledger>>

(* delete_booking, app.py:306-311: find_one of the booking *)
delete_booking_find(t, b) ==
    LET req == [op |-> "delete_booking", id |-> b, worker |-> t] IN
    /\ Tick
    /\ threads[t] = Idle
    /\ IF b \notin DOMAIN bookings
       THEN /\ last' = req @@ [flash |-> "booking_not_found"]
            /\ UNCHANGED threads
       ELSE /\ threads' = [threads EXCEPT ![t] =
                               [pc |-> "delete_delete", req |-> req, booking |-> bookings[b]]]
            /\ UNCHANGED last
    /\ UNCHANGED <<concerts, bookings, nextConcert, nextBooking, ledger>>

(* delete_booking, app.py:313-314: delete_one; the DeleteResult, which the  *)
(* handler does not look at, says whether a booking was removed            *)
delete_booking_delete(t) ==
    LET th == threads[t] IN
    /\ th.pc = "delete_delete"
    /\ bookings' = DeleteOne(bookings, th.req.id)
    /\ threads' = [threads EXCEPT ![t] =
                       [pc |-> "delete_inc", req |-> th.req, booking |-> th.booking,
                        deleted_count |-> IF th.req.id \in DOMAIN bookings THEN 1 ELSE 0]]
    /\ UNCHANGED <<concerts, nextConcert, nextBooking, last, steps, ledger>>

(* delete_booking, app.py:316-323: update_one of the concert from the       *)
(* booking read at the start, then the flash                               *)
delete_booking_update(t) ==
    LET th == threads[t] IN
    /\ th.pc = "delete_inc"
    /\ IF "num_tickets" \notin DOMAIN th.booking
       THEN /\ last' = th.req @@ [flash |-> "exception"]
            /\ UNCHANGED concerts
       ELSE /\ concerts' = UpdateInc(concerts, ObjectId(th.booking.concert_id),
                                     "available_seats", delete_booking_inc(th.booking))
            /\ last' = th.req @@ [flash |-> "cancelled"]
    /\ threads' = [threads EXCEPT ![t] = Idle]
    /\ UNCHANGED <<bookings, nextConcert, nextBooking, steps, ledger>>

(* No request is in progress *)
Quiescent == \A t \in Workers : threads[t] = Idle

(* Concurrent creations *)
ConcurrentAddNext ==
    \/ \E p \in Prices, s \in SeatCounts : add_concert(p, s)
    \/ \E t \in Workers, c \in AnyConcert, n \in TicketCounts, cust \in Customers :
           add_booking_find(t, c, n, cust)
    \/ \E t \in Workers : add_booking_insert(t)
    \/ \E t \in Workers : add_booking_update(t)

SpecConcurrentAdd == Init /\ [][ConcurrentAddNext]_vars

(* Concurrent deletions of bookings made one at a time *)
ConcurrentDeleteNext ==
    \/ \E p \in Prices, s \in SeatCounts : add_concert(p, s)
    \/ \E c \in AnyConcert, n \in TicketCounts, cust \in Customers : add_booking(c, n, cust)
    \/ \E t \in Workers, b \in AnyBooking : delete_booking_find(t, b)
    \/ \E t \in Workers : delete_booking_delete(t)
    \/ \E t \in Workers : delete_booking_update(t)

SpecConcurrentDelete == Init /\ [][ConcurrentDeleteNext]_vars

(* Edits by every worker, deletions by one of them: an edit runs beside     *)
(* another edit or beside a deletion, and no two deletions overlap         *)
ConcurrentEditNext ==
    \/ \E p \in Prices, s \in SeatCounts : add_concert(p, s)
    \/ \E c \in AnyConcert, n \in TicketCounts, cust \in Customers : add_booking(c, n, cust)
    \/ \E t \in Workers, b \in AnyBooking, n \in TicketCounts, cust \in Customers,
             st \in Statuses : edit_booking_find(t, b, n, cust, st)
    \/ \E t \in Workers : edit_booking_find_concert(t)
    \/ \E t \in Workers : edit_booking_set(t)
    \/ \E t \in Workers : edit_booking_update(t)
    \/ \E b \in AnyBooking : delete_booking_find("w1", b)
    \/ delete_booking_delete("w1")
    \/ delete_booking_update("w1")

SpecConcurrentEdit == Init /\ [][ConcurrentEditNext]_vars

(* Store failure between the two writes of a booking creation *)

(* the inserted booking deleted again by the handler *)
add_booking_except_deletes(coll, id) == DeleteOne(coll, id)

(* add_booking's except Exception: flash and redirect; nothing is undone *)
add_booking_except(coll, id) == coll

(* POST /bookings/add when insert_one succeeded and the update_one of the   *)
(* concert raises                                                          *)
add_booking_update_fails(c, n, cust) ==
    LET req == [op |-> "add_booking", id |-> c, n |-> n, cust |-> cust] IN
    /\ Tick
    /\ UNCHANGED billing
    /\ c \in DOMAIN concerts
    /\ ~add_booking_rejects(concerts[c], n)
    /\ "ticket_price" \in DOMAIN concerts[c]
    /\ nextBooking <= MaxBookings
    /\ bookings' = add_booking_except(
                       InsertOne(bookings, nextBooking,
                           [concert_id |-> StrId(c),
                            customer_name |-> cust,
                            num_tickets |-> n,
                            ticket_price |-> concerts[c].ticket_price,
                            total_amount |-> concerts[c].ticket_price * n,
                            status |-> "confirmed"]),
                       nextBooking)
    /\ nextBooking' = nextBooking + 1
    /\ last' = req @@ [flash |-> "exception", failed |-> "update_one", ret |-> nextBooking]
    /\ UNCHANGED <<concerts, nextConcert>>

(* One round of the booking loop of main.create_sample_data when the        *)
(* update_one inside update_available_seats raises: the method catches the *)
(* error and returns False, and the loop ignores the result                *)
create_sample_data_update_fails(cust, c, q, u) ==
    /\ Tick
    /\ UNCHANGED billing
    /\ c \in ConcertIds
    /\ nextBooking <= MaxBookings
    /\ bookings' = InsertOne(bookings, nextBooking, Booking_to_dict(cust, c, q, u))
    /\ nextBooking' = nextBooking + 1
    /\ last' = [op |-> "create_sample_data", id |-> c, n |-> q, ret |-> nextBooking,
                failed |-> "update_available_seats"]
    /\ UNCHANGED <<concerts, nextConcert>>

StoreFailureNext ==
    \/ \E p \in Prices, s \in SeatCounts : add_concert(p, s)
    \/ \E p \in Prices, s \in SeatCounts : ConcertCRUD_create_concert(p, s)
    \/ \E c \in AnyConcert, n \in TicketCounts, cust \in Customers : add_booking(c, n, cust)
    \/ \E c \in AnyConcert, n \in TicketCounts, cust \in Customers :
           add_booking_update_fails(c, n, cust)
    \/ \E cust \in Customers, c \in AnyConcert, q \in 1..MaxTickets, u \in Prices :
           create_sample_data(cust, c, q, u)
    \/ \E cust \in Customers, c \in AnyConcert, q \in 1..MaxTickets, u \in Prices :
           create_sample_data_update_fails(cust, c, q, u)

SpecStoreFailure == Init /\ [][StoreFailureNext]_vars

(* The booking requests of the web application over concerts added         *)
(* through it, one request at a time                                       *)
SeatsNext ==
    \/ \E p \in Prices, s \in SeatCounts : add_concert(p, s)
    \/ \E c \in AnyConcert, n \in TicketCounts, cust \in Customers : add_booking(c, n, cust)
    \/ \E b \in AnyBooking, n \in TicketCounts, cust \in Customers, st \in Statuses :
           edit_booking(b, n, cust, st)
    \/ \E b \in AnyBooking : delete_booking(b)

SpecSeats == Init /\ [][SeatsNext]_vars

CreateNext ==
    \/ \E p \in Prices, s \in SeatCounts : add_concert(p, s)
    \/ \E p \in Prices, s \in SeatCounts : ConcertCRUD_create_concert(p, s)
    \/ \E c \in AnyConcert, n \in TicketCounts, cust \in Customers : add_booking(c, n, cust)
    \/ \E cust \in Customers, c \in AnyConcert, q \in 1..MaxTickets, u \in Prices :
           create_sample_data(cust, c, q, u)

SpecCreate == Init /\ [][CreateNext]_vars

----------------------------------------------------------------------------
(* Invoices: models.Invoice and InvoiceCRUD of crud_operations.py *)

(* Time passes between two calls *)
ClockSteps == {MicrosPerMilli \div 2, MicrosPerSecond}

pass_time(d) ==
    /\ steps < MaxSteps
    /\ steps' = steps + 1
    /\ now + d <= MaxClock
    /\ now' = now + d
    /\ UNCHANGED <<concerts, bookings, nextConcert, nextBooking, last,
                   customers, invoices, nextInvoice>>
    /\ UNCHANGED threads

(* Invoice._generate_invoice_number: "INV-" followed by the whole seconds   *)
(* of the clock                                                            *)
Invoice_generate_invoice_number(t) == [prefix |-> "INV", timestamp |-> t \div MicrosPerSecond]

(* Invoice.to_dict of a freshly constructed Invoice *)
Invoice_to_dict(b, cust, amount, tax_amount) ==
    [booking_id |-> b,
     customer_id |-> cust,
     amount |-> amount,
     tax_amount |-> tax_amount,
     total_amount |-> amount + tax_amount,
     issue_date |-> now,
     payment_status |-> "pending",
     payment_date |-> None,
     invoice_number |-> Invoice_generate_invoice_number(now)]

Taxes == {0, 1}
PaymentStatuses == {"pending", "paid"}

(* InvoiceCRUD.create_invoice *)
InvoiceCRUD_create_invoice(b, cust, amount, tax_amount) ==
    /\ Tick
    /\ nextInvoice <= MaxInvoices
    /\ invoices' = InsertOne(invoices, nextInvoice,
                             Bson(Invoice_to_dict(b, cust, amount, tax_amount)))
    /\ nextInvoice' = nextInvoice + 1
    /\ last' = [op |-> "InvoiceCRUD.create_invoice", id |-> nextInvoice, ret |-> nextInvoice]
    /\ UNCHANGED <<concerts, bookings, nextConcert, nextBooking, customers, now>>
    /\ UNCHANGED threads

(* Partial updates a caller passes to InvoiceCRUD.update_invoice *)
InvoiceUpdates ==
    {[amount |-> a] : a \in Prices} \cup {[payment_status |-> st] : st \in PaymentStatuses}

(* InvoiceCRUD.update_invoice: $set of the supplied fields, nothing else *)
InvoiceCRUD_update_invoice(i, update_data) ==
    /\ Tick
    /\ invoices' = UpdateSet(invoices, i, Bson(update_data))
    /\ last' = [op |-> "InvoiceCRUD.update_invoice", id |-> i, upd |-> update_data,
                ret |-> (ModifiedCount(invoices, i, Bson(update_data)) > 0)]
    /\ UNCHANGED <<concerts, bookings, nextConcert, nextBooking, customers, nextInvoice, now>>
    /\ UNCHANGED threads

(* the $set operand of mark_paid called without a payment_date: the date   *)
(* defaults to datetime.now() on every call                                *)
mark_paid_update(i) == [payment_status |-> "paid", payment_date |-> now]

(* InvoiceCRUD.mark_paid = update_invoice(id, {payment_status, payment_date}) *)
InvoiceCRUD_mark_paid(i) ==
    /\ Tick
    /\ invoices' = UpdateSet(invoices, i, Bson(mark_paid_update(i)))
    /\ last' = [op |-> "InvoiceCRUD.mark_paid", id |-> i,
                ret |-> (ModifiedCount(invoices, i, Bson(mark_paid_update(i))) > 0)]
    /\ UNCHANGED <<concerts, bookings, nextConcert, nextBooking, customers, nextInvoice, now>>
    /\ UNCHANGED threads

(* InvoiceCRUD.delete_invoice *)
InvoiceCRUD_delete_invoice(i) ==
    /\ Tick
    /\ invoices' = DeleteOne(invoices, i)
    /\ last' = [op |-> "InvoiceCRUD.delete_invoice", id |-> i, ret |-> (i \in DOMAIN invoices)]
    /\ UNCHANGED <<concerts, bookings, nextConcert, nextBooking, customers, nextInvoice, now>>
    /\ UNCHANGED threads

AnyInvoice == 1..MaxInvoices

InvoiceNext ==
    \/ \E d \in ClockSteps : pass_time(d)
    \/ \E b \in AnyBooking, cust \in Customers, a \in Prices, t \in Taxes :
           InvoiceCRUD_create_invoice(b, cust, a, t)
    \/ \E i \in AnyInvoice, upd \in InvoiceUpdates : InvoiceCRUD_update_invoice(i, upd)
    \/ \E i \in AnyInvoice : InvoiceCRUD_mark_paid(i)
    \/ \E i \in AnyInvoice : InvoiceCRUD_delete_invoice(i)

(* The invoice ledger alone: no invoice operation reads or writes concerts  *)
(* or bookings                                                             *)
SpecBilling == Init /\ [][InvoiceNext]_vars

----------------------------------------------------------------------------
(* Reading and updating through ConcertCRUD *)

(* collection.find_one({"_id": id}): the document, or None *)
FindOne(coll, id) ==
    IF id \in DOMAIN coll THEN [found |-> TRUE, doc |-> coll[id]] ELSE [found |-> FALSE]

(* Concert.from_dict subscripts these keys: a document without one of them  *)
(* raises KeyError                                                         *)
Concert_from_dict_raises(data) == ~({"ticket_prices", "total_seats"} \subseteq DOMAIN data)

(* the object as the constructor alone leaves it *)
Concert_from_dict_constructed(data) ==
    [ticket_prices |-> data.ticket_prices,
     total_seats |-> data.total_seats,
     available_seats |-> data.total_seats,
     created_at |-> now]

(* Concert.from_dict: the constructor arguments from the document, then    *)
(* available_seats and created_at with their defaults                      *)
Concert_from_dict(data) ==
    [ticket_prices |-> data.ticket_prices,
     total_seats |-> data.total_seats,
     available_seats |-> IF "available_seats" \in DOMAIN data
                         THEN data.available_seats ELSE data.total_seats,
     created_at |-> IF "created_at" \in DOMAIN data THEN data.created_at ELSE now]

(* the document handed to from_dict whatever find_one returned *)
get_concert_has_doc_unchecked(r) == TRUE

(* get_concert's test of find_one's result: if doc *)
get_concert_has_doc(r) == r.found

(* ConcertCRUD.get_concert: only PyMongoError is caught, so a KeyError or   *)
(* TypeError of from_dict reaches the caller                               *)
ConcertCRUD_get_concert(c) ==
    LET req == [op |-> "ConcertCRUD.get_concert", id |-> c]
        r == FindOne(concerts, c)
    IN
    /\ Tick
    /\ UNCHANGED billing
    /\ last' = IF ~get_concert_has_doc(r)
               THEN req @@ [result |-> "none"]
               ELSE IF ~r.found
               THEN req @@ [result |-> "raise"]
               ELSE IF Concert_from_dict_raises(r.doc)
               THEN req @@ [result |-> "raise"]
               ELSE req @@ [result |-> "entity", ret |-> Concert_from_dict(r.doc)]
    /\ UNCHANGED <<concerts, bookings, nextConcert, nextBooking>>

(* Partial updates a caller passes to ConcertCRUD.update_concert *)
ConcertUpdates ==
    {[total_seats |-> s] : s \in SeatCounts} \cup {[available_seats |-> s] : s \in SeatCounts}

(* ConcertCRUD.update_concert: $set of the supplied fields; the result is   *)
(* modified_count > 0.  `before` keeps what get_concert returned before    *)
(* the update.                                                             *)
ConcertCRUD_update_concert(c, update_data) ==
    /\ Tick
    /\ UNCHANGED billing
    /\ concerts' = UpdateSet(concerts, c, Bson(update_data))
    /\ last' = [op |-> "ConcertCRUD.update_concert", id |-> c, upd |-> update_data,
                ret |-> (ModifiedCount(concerts, c, Bson(update_data)) > 0)]
               @@ (IF c \in DOMAIN concerts /\ ~Concert_from_dict_raises(concerts[c])
                   THEN [before |-> Concert_from_dict(concerts[c])]
                   ELSE << >>)
    /\ UNCHANGED <<bookings, nextConcert, nextBooking>>

ContractNext ==
    \/ \E d \in ClockSteps : pass_time(d)
    \/ \E p \in Prices, s \in SeatCounts : ConcertCRUD_create_concert(p, s)
    \/ \E c \in AnyConcert : ConcertCRUD_get_concert(c)
    \/ \E c \in AnyConcert, upd \in ConcertUpdates : ConcertCRUD_update_concert(c, upd)
    \/ \E c \in AnyConcert : ConcertCRUD_delete_concert(c)

(* create / get / update / delete of one entity kind, with time passing *)
SpecContract == Init /\ [][ContractNext]_vars

----------------------------------------------------------------------------
(* Customers, and the reports of analytics.py and of the /analytics page *)

(* Customer.to_dict *)
Customer_to_dict(cust) == [name |-> cust, created_at |-> now]

(* CustomerCRUD.create_customer.  The customer's name stands for the       *)
(* identity the store hands out, so a name is inserted once.               *)
CustomerCRUD_create_customer(cust) ==
    /\ cust \notin DOMAIN customers
    /\ customers' = InsertOne(customers, cust, Bson(Customer_to_dict(cust)))
    /\ last' = [op |-> "CustomerCRUD.create_customer", id |-> cust, ret |-> cust]
    /\ UNCHANGED <<concerts, bookings, nextConcert, nextBooking, steps,
                   invoices, nextInvoice, now>>
    /\ UNCHANGED threads

(* A number the pipeline computed from a division, kept exact *)
Ratio(n, d) == [num |-> n, den |-> d]

(* null, the $avg of no values *)
Null == [null |-> TRUE]

(* {"$sum": "$bookings.<f>"}: documents without a numeric f add nothing *)
RECURSIVE SumField(_, _)
SumField(S, f) ==
    IF S = {} THEN 0
    ELSE LET b == CHOOSE x \in S : TRUE IN
         (IF f \in DOMAIN bookings[b] THEN bookings[b][f] ELSE 0) + SumField(S \ {b}, f)

(* n / d rounded to the nearest integer, halves to the even neighbour, as  *)
(* $round does (n >= 0, d > 0)                                             *)
RoundHalfEven(n, d) ==
    LET q == n \div d
        r == n % d
    IN IF 2 * r < d THEN q
       ELSE IF 2 * r > d THEN q + 1
       ELSE IF q % 2 = 0 THEN q ELSE q + 1

(* {"$sort": {key: -1}}: the rows in some order of non-increasing key (a    *)
(* function of the row); the order among equal keys is left to the server  *)
SortDescending(rows, key) ==
    {seq \in [1..Cardinality(rows) -> rows] :
        /\ \A i, j \in 1..Cardinality(rows) : i # j => seq[i] # seq[j]
        /\ \A i \in 1..(Cardinality(rows) - 1) : key[seq[i]] >= key[seq[i + 1]]}

(* $lookup from bookings, localField _id, foreignField concert_id: equality *)
(* with the ObjectId itself, which the id string app.py stores is not      *)
LookupByConcertId(c) == {b \in DOMAIN bookings : bookings[b].concert_id = OidRef(c)}

(* the divisor tested before the division *)
revenue_divides_by_zero_guarded(total_seats) == FALSE

(* {"$divide": ["$tickets_sold", "$total_seats"]} fails the whole aggregate *)
(* when total_seats is 0                                                   *)
revenue_divides_by_zero(total_seats) == total_seats = 0

(* $group and $addFields of get_revenue_by_concert for one concert *)
RevenueRow(c) ==
    LET tickets_sold == SumField(LookupByConcertId(c), "quantity") IN
    [id |-> c,
     total_revenue |-> SumField(LookupByConcertId(c), "total_amount"),
     tickets_sold |-> tickets_sold,
     total_seats |-> concerts[c].total_seats,
     occupancy_rate |-> Ratio(tickets_sold * 100, concerts[c].total_seats)]

(* BillingAnalytics.get_revenue_by_concert: the server's error is a         *)
(* PyMongoError, caught, and the method returns []                         *)
get_revenue_by_concert ==
    /\ IF \E c \in DOMAIN concerts : revenue_divides_by_zero(concerts[c].total_seats)
       THEN last' = [op |-> "get_revenue_by_concert", error |-> TRUE, ret |-> << >>]
       ELSE LET R == {RevenueRow(c) : c \in DOMAIN concerts} IN
            \E rows \in SortDescending(R, [r \in R |-> r.total_revenue]) :
                last' = [op |-> "get_revenue_by_concert", error |-> FALSE, ret |-> rows]
    /\ UNCHANGED <<concerts, bookings, nextConcert, nextBooking, steps, billing>>

(* $lookup of the /analytics page: the concert's id as a string against     *)
(* the bookings' concert_id                                                *)
LookupByConcertIdStr(c) == {b \in DOMAIN bookings : bookings[b].concert_id = StrId(c)}

(* $addFields and $project of the occupancy pipeline for one concert: the   *)
(* rate is 0 for a concert without seats, else rounded to one decimal      *)
OccupancyRow(c) ==
    LET tickets_sold == SumField(LookupByConcertIdStr(c), "num_tickets")
        total_seats == concerts[c].total_seats
    IN
    [id |-> c,
     tickets_sold |-> tickets_sold,
     total_seats |-> total_seats,
     available_seats |-> total_seats - tickets_sold,
     occupancy_rate |-> IF total_seats = 0 THEN Ratio(0, 1)
                        ELSE IF tickets_sold < 0
                        THEN Ratio(0 - RoundHalfEven((0 - tickets_sold) * 1000, total_seats), 10)
                        ELSE Ratio(RoundHalfEven(tickets_sold * 1000, total_seats), 10)]

(* GET /analytics, the concert occupancy pipeline *)
analytics ==
    /\ LET R == {OccupancyRow(c) : c \in DOMAIN concerts} IN
       \E rows \in SortDescending(R, [r \in R |-> r.occupancy_rate.num]) :
           last' = [op |-> "analytics", error |-> FALSE, ret |-> rows]
    /\ UNCHANGED <<concerts, bookings, nextConcert, nextBooking, steps, billing>>

(* $lookup from bookings, localField _id, foreignField customer_id *)
LookupByCustomerId(cust) ==
    {b \in DOMAIN bookings : "customer_id" \in DOMAIN bookings[b] /\ bookings[b].customer_id = cust}

(* every customer kept, with or without bookings *)
customer_statistics_match_all(total_bookings) == TRUE

(* {"$match": {"total_bookings": {"$gt": 0}}} *)
customer_statistics_match(total_bookings) == total_bookings > 0

(* $addFields and $project of get_customer_booking_statistics: $avg, then   *)
(* $round to 2 decimals                                                    *)
CustomerRow(cust) ==
    LET B == LookupByCustomerId(cust)
        total_spent == SumField(B, "total_amount")
    IN
    [id |-> cust,
     total_bookings |-> Cardinality(B),
     total_spent |-> total_spent,
     avg_booking_value |-> IF B = {} THEN Null
                           ELSE Ratio(RoundHalfEven(total_spent * 100, Cardinality(B)), 100)]

(* BillingAnalytics.get_customer_booking_statistics *)
get_customer_booking_statistics ==
    /\ LET R == {r \in {CustomerRow(cust) : cust \in DOMAIN customers} :
                     customer_statistics_match(r.total_bookings)}
       IN
       \E rows \in SortDescending(R, [r \in R |-> r.total_spent]) :
           last' = [op |-> "get_customer_booking_statistics", error |-> FALSE, ret |-> rows]
    /\ UNCHANGED <<concerts, bookings, nextConcert, nextBooking, steps, billing>>

(* The first k rows: {"$limit": k} *)
Limit(rows, k) == SubSeq(rows, 1, IF k < Len(rows) THEN k ELSE Len(rows))

(* $group of get_popular_concerts for one value of concert_id, with the    *)
(* fields $project keeps                                                   *)
PopularRow(g) ==
    LET B == {b \in DOMAIN bookings : bookings[b].concert_id = g} IN
    [id |-> ObjectId(g),
     total_tickets_sold |-> SumField(B, "quantity"),
     total_revenue |-> SumField(B, "total_amount"),
     unique_customers_count |->
         Cardinality({bookings[b].customer_id :
                          b \in {x \in B : "customer_id" \in DOMAIN bookings[x]}})]

(* $lookup from concerts on _id, then $unwind: a group stays when its key   *)
(* is the ObjectId of a stored concert                                     *)
PopularGroups ==
    {g \in {bookings[b].concert_id : b \in DOMAIN bookings} :
        g.kind = "oid" /\ ObjectId(g) \in DOMAIN concerts}

MaxLimit == 2
Limits == 0..MaxLimit

(* BillingAnalytics.get_popular_concerts(limit): the server rejects a       *)
(* $limit that is not positive, and the method then returns []             *)
get_popular_concerts(limit) ==
    /\ IF limit <= 0
       THEN last' = [op |-> "get_popular_concerts", limit |-> limit,
                     error |-> TRUE, ret |-> << >>]
       ELSE LET R == {PopularRow(g) : g \in PopularGroups} IN
            \E rows \in SortDescending(R, [r \in R |-> r.total_tickets_sold]) :
                last' = [op |-> "get_popular_concerts", limit |-> limit,
                         error |-> FALSE, ret |-> Limit(rows, limit)]
    /\ UNCHANGED <<concerts, bookings, nextConcert, nextBooking, steps, billing>>

(* The eight public methods of BillingAnalytics *)
ReportNames ==
    {"get_revenue_by_concert", "get_customer_booking_statistics",
     "get_popular_concerts", "get_monthly_revenue_report",
     "get_ticket_type_distribution", "get_payment_status_summary",
     "get_revenue_by_venue", "get_top_customers_by_spending"}

(* What Collection.aggregate or the cursor raises when the store fails:    *)
(* all are subclasses of pymongo.errors.PyMongoError                       *)
PyMongoError ==
    {"ServerSelectionTimeoutError", "AutoReconnect", "NetworkTimeout",
     "OperationFailure", "CursorNotFound"}

report_catches_connection_failure(exc) ==
    exc \in {"ServerSelectionTimeoutError", "AutoReconnect", "NetworkTimeout"}

(* except PyMongoError as e: the handler every report ends with *)
report_catches(exc) == exc \in PyMongoError

(* Any of the eight reports when aggregate, or the iteration of its cursor, *)
(* raises exc: the whole pipeline is inside the try block, so the handler  *)
(* prints and returns [], and an exception it does not name propagates     *)
report_store_fails(name, exc) ==
    /\ last' = IF report_catches(exc)
               THEN [op |-> name, exc |-> exc, error |-> TRUE,
                     raised |-> FALSE, ret |-> << >>]
               ELSE [op |-> name, exc |-> exc, error |-> TRUE, raised |-> TRUE]
    /\ UNCHANGED <<concerts, bookings, nextConcert, nextBooking, steps, billing>>

ReportFailureNext ==
    \/ \E cust \in Customers : CustomerCRUD_create_customer(cust)
    \/ get_customer_booking_statistics
    \/ \E name \in ReportNames, exc \in PyMongoError : report_store_fails(name, exc)

SpecReportFailure == Init /\ [][ReportFailureNext]_vars

ReportNext ==
    \/ \E limit \in Limits : get_popular_concerts(limit)
    \/ \E p \in Prices, s \in SeatCounts : add_concert(p, s)
    \/ \E p \in Prices, s \in SeatCounts : ConcertCRUD_create_concert(p, s)
    \/ \E c \in AnyConcert : ConcertCRUD_delete_concert(c)
    \/ \E c \in AnyConcert, n \in TicketCounts, cust \in Customers : add_booking(c, n, cust)
    \/ \E cust \in Customers, c \in AnyConcert, q \in 1..MaxTickets, u \in Prices :
           BookingCRUD_create_booking(cust, c, q, u)
    \/ get_revenue_by_concert
    \/ analytics

(* The store filled by either program, and the concert reports read from it *)
SpecReports == Init /\ [][ReportNext]_vars

CustomerReportNext ==
    \/ \E p \in Prices, s \in SeatCounts : add_concert(p, s)
    \/ \E p \in Prices, s \in SeatCounts : ConcertCRUD_create_concert(p, s)
    \/ \E cust \in Customers : CustomerCRUD_create_customer(cust)
    \/ \E c \in AnyConcert, n \in TicketCounts, cust \in Customers : add_booking(c, n, cust)
    \/ \E cust \in Customers, c \in AnyConcert, q \in 1..MaxTickets, u \in Prices :
           BookingCRUD_create_booking(cust, c, q, u)
    \/ \E b \in AnyBooking : BookingCRUD_delete_booking(b)
    \/ get_customer_booking_statistics

(* Customers, bookings of either program, and the customer report *)
SpecCustomerReport == Init /\ [][CustomerReportNext]_vars

----------------------------------------------------------------------------
(* The model classes of models.py as objects: to_dict and from_dict        *)

(* A string attribute that may be None *)
Addresses == {Null, [str |-> "1 Main St"]}

(* A timestamp an object can carry: set when the program started, or now   *)
Timestamps == {0, now}

(* Concert objects: available_seats moves away from total_seats as seats   *)
(* are booked                                                              *)
ConcertObjects ==
    {e \in [ticket_prices : {[Regular |-> p] : p \in Prices},
            total_seats : SeatCounts,
            available_seats : 0..MaxSeats,
            created_at : Timestamps] : e.available_seats <= e.total_seats}

CustomerObjects == [name : Customers, address : Addresses, created_at : Timestamps]

(* Booking objects: total_amount is quantity * unit_price, the status may   *)
(* have been changed                                                       *)
BookingObjects ==
    {e \in [customer_id : Customers,
            concert_id : {OidRef(c) : c \in AnyConcert},
            quantity : 1..MaxTickets,
            unit_price : Prices,
            total_amount : 1..(MaxTickets * 2),
            booking_date : Timestamps,
            status : Statuses] : e.total_amount = e.quantity * e.unit_price}

(* Invoice objects: pending without a payment date, or paid with one *)
InvoiceObjects ==
    {e \in [booking_id : AnyBooking,
            customer_id : Customers,
            amount : Prices,
            tax_amount : Taxes,
            total_amount : 1..3,
            issue_date : Timestamps,
            payment_status : PaymentStatuses,
            payment_date : {None, now},
            invoice_number : {Invoice_generate_invoice_number(t) : t \in Timestamps}] :
        /\ e.total_amount = e.amount + e.tax_amount
        /\ e.invoice_number = Invoice_generate_invoice_number(e.issue_date)
        /\ (e.payment_status = "pending") <=> (e.payment_date = None)}

(* Concert.to_dict of any Concert object *)
Concert_to_dict_of(e) ==
    [ticket_prices |-> e.ticket_prices,
     total_seats |-> e.total_seats,
     available_seats |-> e.available_seats,
     created_at |-> e.created_at]

(* Customer.to_dict of any Customer object *)
Customer_to_dict_of(e) ==
    [name |-> e.name, address |-> e.address, created_at |-> e.created_at]

(* Customer.from_dict *)
Customer_from_dict(data) ==
    [name |-> data.name,
     address |-> IF "address" \in DOMAIN data THEN data.address ELSE Null,
     created_at |-> IF "created_at" \in DOMAIN data THEN data.created_at ELSE now]

(* Booking.to_dict of any Booking object *)
Booking_to_dict_of(e) ==
    [customer_id |-> e.customer_id,
     concert_id |-> e.concert_id,
     quantity |-> e.quantity,
     unit_price |-> e.unit_price,
     total_amount |-> e.total_amount,
     booking_date |-> e.booking_date,
     status |-> e.status]

(* Booking.from_dict: the constructor computes total_amount, sets the date  *)
(* to now and the status to confirmed; the document's values replace them  *)
Booking_from_dict(data) ==
    [customer_id |-> data.customer_id,
     concert_id |-> data.concert_id,
     quantity |-> data.quantity,
     unit_price |-> data.unit_price,
     total_amount |-> IF "total_amount" \in DOMAIN data
                      THEN data.total_amount ELSE data.quantity * data.unit_price,
     booking_date |-> IF "booking_date" \in DOMAIN data THEN data.booking_date ELSE now,
     status |-> IF "status" \in DOMAIN data THEN data.status ELSE "confirmed"]

(* Invoice.to_dict of any Invoice object *)
Invoice_to_dict_of(e) ==
    [booking_id |-> e.booking_id,
     customer_id |-> e.customer_id,
     amount |-> e.amount,
     tax_amount |-> e.tax_amount,
     total_amount |-> e.total_amount,
     issue_date |-> e.issue_date,
     payment_status |-> e.payment_status,
     payment_date |-> e.payment_date,
     invoice_number |-> e.invoice_number]

(* Invoice.from_dict: the constructor makes a pending invoice issued now    *)
(* with a number generated now; the document's values replace them         *)
Invoice_from_dict(data) ==
    LET tax == IF "tax_amount" \in DOMAIN data THEN data.tax_amount ELSE 0 IN
    [booking_id |-> data.booking_id,
     customer_id |-> data.customer_id,
     amount |-> data.amount,
     tax_amount |-> tax,
     total_amount |-> IF "total_amount" \in DOMAIN data
                      THEN data.total_amount ELSE data.amount + tax,
     issue_date |-> IF "issue_date" \in DOMAIN data THEN data.issue_date ELSE now,
     payment_status |-> IF "payment_status" \in DOMAIN data
                        THEN data.payment_status ELSE "pending",
     payment_date |-> IF "payment_date" \in DOMAIN data THEN data.payment_date ELSE None,
     invoice_number |-> IF "invoice_number" \in DOMAIN data
                        THEN data.invoice_number
                        ELSE Invoice_generate_invoice_number(now)]

(* from_dict applied to to_dict of an object, nothing stored in between *)
Concert_round_trip(e) ==
    /\ e \in ConcertObjects
    /\ last' = [op |-> "Concert.from_dict", arg |-> e,
                ret |-> Concert_from_dict(Concert_to_dict_of(e))]
    /\ UNCHANGED <<concerts, bookings, nextConcert, nextBooking, steps, billing>>

Customer_round_trip(e) ==
    /\ e \in CustomerObjects
    /\ last' = [op |-> "Customer.from_dict", arg |-> e,
                ret |-> Customer_from_dict(Customer_to_dict_of(e))]
    /\ UNCHANGED <<concerts, bookings, nextConcert, nextBooking, steps, billing>>

Booking_round_trip(e) ==
    /\ e \in BookingObjects
    /\ last' = [op |-> "Booking.from_dict", arg |-> e,
                ret |-> Booking_from_dict(Booking_to_dict_of(e))]
    /\ UNCHANGED <<concerts, bookings, nextConcert, nextBooking, steps, billing>>

Invoice_round_trip(e) ==
    /\ e \in InvoiceObjects
    /\ last' = [op |-> "Invoice.from_dict", arg |-> e,
                ret |-> Invoice_from_dict(Invoice_to_dict_of(e))]
    /\ UNCHANGED <<concerts, bookings, nextConcert, nextBooking, steps, billing>>

RoundTripNext ==
    \/ \E d \in ClockSteps : pass_time(d)
    \/ \E e \in ConcertObjects : Concert_round_trip(e)
    \/ \E e \in CustomerObjects : Customer_round_trip(e)
    \/ \E e \in BookingObjects : Booking_round_trip(e)
    \/ \E e \in InvoiceObjects : Invoice_round_trip(e)

SpecRoundTrip == Init /\ [][RoundTripNext]_vars

----------------------------------------------------------------------------
(* Vocabulary of the properties *)

(* The quantity a booking document holds: num_tickets as the handlers write *)
(* it, quantity as models.Booking writes it                                *)
Qty(doc) == IF "num_tickets" \in DOMAIN doc THEN doc.num_tickets ELSE doc.quantity

(* The unit price recorded in the booking document itself *)
UnitPrice(doc) == IF "ticket_price" \in DOMAIN doc THEN doc.ticket_price ELSE doc.unit_price

(* The bookings that reference concert c, in either form of the reference *)
BookingsOf(c) == {b \in DOMAIN bookings : ObjectId(bookings[b].concert_id) = c}

ActiveBookingsOf(c) == {b \in BookingsOf(c) : bookings[b].status # "cancelled"}

(* The sum of field f over the rows of a report *)
RECURSIVE SumRows(_, _)
SumRows(rows, f) ==
    IF rows = << >> THEN 0 ELSE Head(rows)[f] + SumRows(Tail(rows), f)

(* The rows of a report are in non-increasing order of field f *)
NonIncreasing(rows, f) ==
    \A i \in 1..(Len(rows) - 1) : rows[i][f] >= rows[i + 1][f]

RECURSIVE SumQty(_)
SumQty(S) ==
    IF S = {} THEN 0
    ELSE LET b == CHOOSE x \in S : TRUE IN Qty(bookings[b]) + SumQty(S \ {b})

----------------------------------------------------------------------------
(* C1: in every state reached by operations run one at a time, every       *)
(* concert has 0 <= available_seats <= total_seats.                        *)
C1_SeatsWithinRange ==
    \A c \in DOMAIN concerts :
        /\ 0 <= concerts[c].available_seats
        /\ concerts[c].available_seats <= concerts[c].total_seats

(* C2: after any number of successful booking creations against a concert, *)
(* its available_seats equals total_seats minus the sum of the quantities  *)
(* of its active (non-cancelled) bookings.                                 *)
C2_SeatsMatchActiveBookings ==
    \A c \in DOMAIN concerts :
        concerts[c].available_seats =
            concerts[c].total_seats - SumQty(ActiveBookingsOf(c))

(* two bookings were created against one concert, one by each creation path *)
C2_Witness ==
    \E c \in DOMAIN concerts :
        /\ \E b \in BookingsOf(c) : "num_tickets" \in DOMAIN bookings[b]
        /\ \E b \in BookingsOf(c) : "quantity" \in DOMAIN bookings[b]
        /\ concerts[c].available_seats < concerts[c].total_seats

(* C3: creating a booking whose quantity exceeds the concert's current     *)
(* available_seats is rejected and writes nothing: no booking is inserted  *)
(* and the concert's available_seats is unchanged.                         *)
C3_OversizedCreationWritesNothing ==
    [][( /\ last'.op \in {"add_booking", "BookingCRUD.create_booking", "create_sample_data"}
         /\ last'.id \in DOMAIN concerts
         /\ last'.n > concerts[last'.id].available_seats )
       => (bookings' = bookings /\ concerts' = concerts)]_vars

(* C4: editing a booking's quantity from old to new, delta = new - old,    *)
(* succeeds whenever delta <= 0 or delta <= the concert's available_seats, *)
(* and the concert's available_seats becomes its previous value minus      *)
(* delta.                                                                  *)
C4_EditAppliesDelta ==
    [][( /\ last'.op = "edit_booking"
         /\ last'.id \in DOMAIN bookings
         /\ "num_tickets" \in DOMAIN bookings[last'.id]
         /\ ObjectId(bookings[last'.id].concert_id) \in DOMAIN concerts
         /\ "ticket_price" \in DOMAIN concerts[ObjectId(bookings[last'.id].concert_id)]
         /\ \/ last'.n - bookings[last'.id].num_tickets <= 0
            \/ last'.n - bookings[last'.id].num_tickets
                   <= concerts[ObjectId(bookings[last'.id].concert_id)].available_seats )
       => LET b == last'.id
              c == ObjectId(bookings[b].concert_id)
          IN
          /\ last'.flash = "updated"
          /\ bookings'[b].num_tickets = last'.n
          /\ concerts'[c].available_seats =
                 concerts[c].available_seats - (last'.n - bookings[b].num_tickets)]_vars

(* an edit that raised the quantity went through and took the last seats *)
C4_Witness ==
    /\ last.op = "edit_booking"
    /\ last.flash = "updated"
    /\ last.diff > 0
    /\ concerts[ObjectId(bookings[last.id].concert_id)].available_seats = 0

(* an edit that lowered the quantity went through and gave seats back *)
C4_WitnessGiveBack ==
    /\ last.op = "edit_booking"
    /\ last.flash = "updated"
    /\ last.diff < 0

(* C5: editing a booking's quantity with delta = new - old > 0 larger than *)
(* the concert's available_seats is rejected; the booking record and the   *)
(* concert's available_seats are left unchanged.                           *)
C5_OversizedEditWritesNothing ==
    [][( /\ last'.op = "edit_booking"
         /\ last'.id \in DOMAIN bookings
         /\ "num_tickets" \in DOMAIN bookings[last'.id]
         /\ ObjectId(bookings[last'.id].concert_id) \in DOMAIN concerts
         /\ last'.n - bookings[last'.id].num_tickets > 0
         /\ last'.n - bookings[last'.id].num_tickets
                > concerts[ObjectId(bookings[last'.id].concert_id)].available_seats )
       => /\ last'.flash = "insufficient"
          /\ bookings' = bookings
          /\ concerts' = concerts]_vars

(* an edit was rejected for lack of seats although the form carried another *)
(* customer name and status than the stored booking                        *)
C5_Witness ==
    /\ last.op = "edit_booking"
    /\ last.flash = "insufficient"
    /\ last.id \in DOMAIN bookings
    /\ last.cust # bookings[last.id].customer_name
    /\ last.status # bookings[last.id].status

(* C6: deleting a booking increases the owning concert's available_seats   *)
(* by exactly the quantity the booking holds at that moment, whatever      *)
(* happened to other bookings before, and changes no other concert.        *)
C6_DeleteRestoresQuantity ==
    [][( /\ last'.op = "delete_booking"
         /\ last'.id \in DOMAIN bookings
         /\ "num_tickets" \in DOMAIN bookings[last'.id] )
       => LET b == last'.id
              c == ObjectId(bookings[b].concert_id)
          IN
          /\ b \notin DOMAIN bookings'
          /\ DOMAIN concerts' = DOMAIN concerts
          /\ c \in DOMAIN concerts =>
                 concerts'[c].available_seats =
                     concerts[c].available_seats + bookings[b].num_tickets
          /\ \A d \in DOMAIN concerts \ {c} : concerts'[d] = concerts[d]]_vars

(* a booking was deleted while another booking of the same concert stays *)
C6_Witness ==
    /\ last.op = "delete_booking"
    /\ last.flash = "cancelled"
    /\ \E c \in DOMAIN concerts :
           /\ BookingsOf(c) # {}
           /\ concerts[c].available_seats + SumQty(BookingsOf(c)) = concerts[c].total_seats

(* a booking was deleted while a second concert exists *)
C6_WitnessOtherConcert ==
    /\ last.op = "delete_booking"
    /\ last.flash = "cancelled"
    /\ Cardinality(DOMAIN concerts) = 2

(* C7: a cancelled booking is terminal: no later operation changes its     *)
(* status to another value or changes its quantity.                        *)
C7_CancelledIsTerminal ==
    [][\A b \in DOMAIN bookings :
          (bookings[b].status = "cancelled" /\ b \in DOMAIN bookings')
          => /\ bookings'[b].status = "cancelled"
             /\ Qty(bookings'[b]) = Qty(bookings[b])]_vars

(* C8: whenever a booking's status changes from confirmed to cancelled,    *)
(* the owning concert's available_seats is increased by that booking's     *)
(* quantity in the same operation.                                         *)
C8_CancelRestoresSeats ==
    [][\A b \in DOMAIN bookings :
          ( /\ b \in DOMAIN bookings'
            /\ bookings[b].status = "confirmed"
            /\ bookings'[b].status = "cancelled"
            /\ ObjectId(bookings[b].concert_id) \in DOMAIN concerts )
          => LET c == ObjectId(bookings[b].concert_id) IN
             /\ c \in DOMAIN concerts'
             /\ concerts'[c].available_seats =
                    concerts[c].available_seats + Qty(bookings[b])]_vars

(* C9: a concert that at least one booking references is never deleted,    *)
(* so no booking references a missing concert.                             *)
C9_ReferencedConcertStays ==
    [][\A c \in DOMAIN concerts :
          BookingsOf(c) # {} => c \in DOMAIN concerts']_vars

(* C10: every stored booking's total_amount equals its quantity times its  *)
(* own recorded unit price, also after a later edit of the quantity and    *)
(* after the concert's ticket price changed in between.                    *)
C10_TotalIsQuantityTimesUnitPrice ==
    \A b \in DOMAIN bookings :
        bookings[b].total_amount = Qty(bookings[b]) * UnitPrice(bookings[b])

(* A step that leaves the clock alone is a call: only pass_time moves the   *)
(* clock, and it is the only step that leaves `last` as it was.            *)

(* C11: mark_paid on a pending invoice sets payment_status to paid and     *)
(* records a payment date; mark_paid applied again to the already-paid     *)
(* invoice is a no-op: every field keeps the value it had after the first  *)
(* application.                                                            *)
C11_MarkPaidOnce ==
    [][( /\ last'.op = "InvoiceCRUD.mark_paid"
         /\ now' = now
         /\ last'.id \in DOMAIN invoices )
       => LET i == last'.id IN
          /\ invoices[i].payment_status = "pending"
                 => /\ invoices'[i].payment_status = "paid"
                    /\ invoices'[i].payment_date # None
          /\ (invoices[i].payment_status = "paid" /\ invoices[i].payment_date # None)
                 => invoices' = invoices]_vars

(* C12: every stored invoice has total_amount = amount + tax_amount, also  *)
(* after partial updates through update_invoice.                           *)
C12_InvoiceTotalIsAmountPlusTax ==
    \A i \in DOMAIN invoices :
        invoices[i].total_amount = invoices[i].amount + invoices[i].tax_amount

(* C13: any two distinct invoices carry different invoice numbers, also    *)
(* when one is created right after the other.                              *)
C13_InvoiceNumbersDiffer ==
    \A i, j \in DOMAIN invoices :
        i # j => invoices[i].invoice_number # invoices[j].invoice_number

(* C14: get(id) for an identity with no matching record (never created, or *)
(* already deleted) returns an explicit not-found result and raises        *)
(* nothing; the store is not written.                                      *)
C14_GetMissingReturnsNone ==
    [][( /\ last'.op = "ConcertCRUD.get_concert"
         /\ now' = now
         /\ last'.id \notin DOMAIN concerts )
       => /\ last'.result = "none"
          /\ concerts' = concerts]_vars

(* get_concert was called for a concert that had been created and deleted *)
C14_Witness ==
    /\ last.op = "ConcertCRUD.get_concert"
    /\ last.result = "none"
    /\ last.id \in ConcertIds
    /\ last.id \notin DOMAIN concerts

(* get_concert was called for an identity never handed out *)
C14_WitnessNeverCreated ==
    /\ last.op = "ConcertCRUD.get_concert"
    /\ last.result = "none"
    /\ last.id \notin ConcertIds

(* C15: update(id, fields) returns true exactly when the record exists and *)
(* at least one supplied field changed value; when it returns false (no    *)
(* such record, or every supplied field already held the supplied value)   *)
(* the store is unchanged.                                                 *)
C15_UpdateReportsChange ==
    [][ (last'.op = "ConcertCRUD.update_concert" /\ now' = now)
        => LET c == last'.id
               changed == /\ c \in DOMAIN concerts
                          /\ \E f \in DOMAIN last'.upd :
                                 \/ f \notin DOMAIN concerts[c]
                                 \/ concerts[c][f] # last'.upd[f]
           IN
           /\ last'.ret = changed
           /\ changed => \A f \in DOMAIN last'.upd : concerts'[c][f] = last'.upd[f]
           /\ ~changed => concerts' = concerts ]_vars

(* an update of a stored concert supplied the value the field already held *)
C15_Witness ==
    /\ last.op = "ConcertCRUD.update_concert"
    /\ last.id \in DOMAIN concerts
    /\ last.ret = FALSE

(* an update changed a field *)
C15_WitnessChanged ==
    /\ last.op = "ConcertCRUD.update_concert"
    /\ last.ret = TRUE

(* C16: after create(entity) returned an id, get(id) returns an entity     *)
(* whose fields equal those of the created entity; after a successful      *)
(* update(id, fields), get(id) shows the updated values with all other     *)
(* fields unchanged.                                                       *)
C16_GetReturnsWhatWasStored ==
    [][ /\ ( /\ last.op = "ConcertCRUD.create_concert"
             /\ last'.op = "ConcertCRUD.get_concert"
             /\ last'.id = last.ret )
           => /\ last'.result = "entity"
              /\ last'.ret = last.entity
        /\ ( /\ last.op = "ConcertCRUD.update_concert"
             /\ last.ret = TRUE
             /\ last'.op = "ConcertCRUD.get_concert"
             /\ last'.id = last.id )
           => /\ last'.result = "entity"
              /\ last'.ret = SetFields(last.before, last.upd) ]_vars

(* C17: the sum of total_revenue over the rows of the revenue-by-concert   *)
(* report equals the sum of total_amount over all bookings, whenever every *)
(* booking's concert exists.                                               *)
C17_ReportTotalsAllBookings ==
    ( /\ last.op = "get_revenue_by_concert"
      /\ \A b \in DOMAIN bookings : ObjectId(bookings[b].concert_id) \in DOMAIN concerts )
    => SumRows(last.ret, "total_revenue") = SumField(DOMAIN bookings, "total_amount")

(* C18: the revenue-by-concert report has exactly one row per concert,     *)
(* also for concerts without bookings (0 and 0); each row has              *)
(* total_revenue = the sum of the concert's booking amounts, tickets_sold  *)
(* = the sum of their quantities and occupancy_rate = tickets_sold /       *)
(* total_seats x 100; rows are in non-increasing total_revenue order.      *)
C18_OneRowPerConcert ==
    last.op = "get_revenue_by_concert"
    => /\ Len(last.ret) = Cardinality(DOMAIN concerts)
       /\ \A c \in DOMAIN concerts :
              \E i \in 1..Len(last.ret) :
                  LET row == last.ret[i] IN
                  /\ row.id = c
                  /\ row.total_revenue = SumField(BookingsOf(c), "total_amount")
                  /\ row.tickets_sold = SumQty(BookingsOf(c))
                  /\ row.occupancy_rate.num * concerts[c].total_seats
                         = row.tickets_sold * 100 * row.occupancy_rate.den
       /\ NonIncreasing(last.ret, "total_revenue")

(* C19: when a concert with total_seats = 0 exists, the revenue/occupancy  *)
(* report still returns a row for it with occupancy_rate = 0 and still     *)
(* returns the rows of all other concerts: no error, no row lost.          *)
C19_ZeroSeatsKeepsRows ==
    ( /\ last.op \in {"get_revenue_by_concert", "analytics"}
      /\ \E c \in DOMAIN concerts : concerts[c].total_seats = 0 )
    => /\ last.error = FALSE
       /\ \A c \in DOMAIN concerts :
              \E i \in 1..Len(last.ret) :
                  /\ last.ret[i].id = c
                  /\ concerts[c].total_seats = 0 => last.ret[i].occupancy_rate.num = 0

C20_WitnessTwoRows ==
    /\ last.op = "get_customer_booking_statistics"
    /\ Len(last.ret) = 2
    /\ last.ret[1].total_spent > last.ret[2].total_spent

(* the report was taken while a booking made through the web form, which   *)
(* names no customer identity, is stored                                   *)
C20_WitnessWebBooking ==
    /\ last.op = "get_customer_booking_statistics"
    /\ Len(last.ret) = 1
    /\ \E b \in DOMAIN bookings : "customer_id" \notin DOMAIN bookings[b]

(* C21: the popular-concerts report with limit L returns min(L, number of  *)
(* existing concerts with at least one booking) rows, one per such         *)
(* concert, in non-increasing order of tickets sold, every omitted concert *)
(* having sold no more than every returned one; bookings of a missing      *)
(* concert contribute no row.                                              *)
C21_PopularConcerts ==
    last.op = "get_popular_concerts"
    => LET Booked == {c \in DOMAIN concerts : BookingsOf(c) # {}}
           Returned == {last.ret[i].id : i \in 1..Len(last.ret)}
       IN
       /\ Len(last.ret) = IF last.limit < Cardinality(Booked)
                          THEN last.limit ELSE Cardinality(Booked)
       /\ Cardinality(Returned) = Len(last.ret)
       /\ Returned \subseteq Booked
       /\ \A i \in 1..Len(last.ret) :
              last.ret[i].total_tickets_sold = SumQty(BookingsOf(last.ret[i].id))
       /\ NonIncreasing(last.ret, "total_tickets_sold")
       /\ \A c \in Booked \ Returned : \A i \in 1..Len(last.ret) :
              SumQty(BookingsOf(c)) <= last.ret[i].total_tickets_sold

(* C22: when the store fails while one of the eight reports is computed,   *)
(* the report returns the empty sequence and no exception reaches the      *)
(* caller.                                                                 *)
C22_FailedReportIsEmpty ==
    (last.op \in ReportNames /\ "exc" \in DOMAIN last)
    => (~last.raised /\ last.ret = << >>)

(* A report over a store that holds customers fails by an operation        *)
(* failure and returns no rows                                             *)
C22_Witness ==
    /\ last.op = "get_top_customers_by_spending"
    /\ "exc" \in DOMAIN last
    /\ last.exc = "OperationFailure"
    /\ last.ret = << >>
    /\ DOMAIN customers # {}

(* C23: running a report leaves concerts, customers, bookings and invoices *)
(* unchanged, and running the same report twice on an unchanged store      *)
(* returns the same rows in the same order.                                *)
C23_ReportsReadOnlyAndRepeatable ==
    [][(last'.op \in ReportNames)
       => ((<<concerts, customers, bookings, invoices>>'
               = <<concerts, customers, bookings, invoices>>)
           /\ ((last.op = last'.op
                 /\ (("limit" \in DOMAIN last) => (last.limit = last'.limit)))
               => (last'.ret = last.ret)))]_vars

(* C24: for each of the four entity types, from_dict(to_dict(e)) equals e  *)
(* in every field, the optional and defaulted ones included                *)
(* (available_seats after bookings, a null address, payment_date,          *)
(* invoice_number, status, the creation timestamps).                       *)
C24_RoundTrip ==
    last.op \in {"Concert.from_dict", "Customer.from_dict",
                 "Booking.from_dict", "Invoice.from_dict"}
    => last.ret = last.arg

(* A concert with seats booked, created before now, came back as it was *)
C24_Witness ==
    /\ last.op = "Concert.from_dict"
    /\ last.arg.available_seats < last.arg.total_seats
    /\ last.arg.created_at < now
    /\ last.ret = last.arg

(* C25: a booking create or edit request whose quantity is zero or         *)
(* negative is rejected before any write: no booking is inserted or        *)
(* modified and no concert's available_seats changes.                      *)
C25_BadQuantityRejected ==
    [][(last'.op \in {"add_booking", "edit_booking"} /\ last'.n <= 0)
       => (bookings' = bookings /\ concerts' = concerts)]_vars

(* C28: in every state reached by add_booking, edit_booking and            *)
(* delete_booking requests run to completion one at a time without store   *)
(* failure, for every concert available_seats plus the sum of num_tickets  *)
(* over all its existing bookings, whatever their status, equals the seat  *)
(* count the concert was created with.                                     *)
C28_SeatConservation ==
    \A c \in DOMAIN concerts :
        concerts[c].available_seats + SumQty(BookingsOf(c)) = concerts[c].total_seats

(* Two seats were booked in one booking, then the booking was edited down  *)
(* to one seat and cancelled; the seat stays counted                       *)
C28_Witness ==
    /\ last.op = "edit_booking"
    /\ last.flash = "updated"
    /\ last.diff = 0 - 1
    /\ last.status = "cancelled"
    /\ \E c \in DOMAIN concerts :
           /\ BookingsOf(c) # {}
           /\ concerts[c].available_seats = 1
           /\ concerts[c].total_seats = 2

(* C27: if the seat decrement fails after the booking record was inserted, *)
(* the booking stays persisted and the concert's available_seats is not    *)
(* decremented; nothing is rolled back, so a state where available_seats   *)
(* exceeds total_seats minus the booked quantities is reachable.           *)
C27_FailedDecrementKeepsBooking ==
    [][("failed" \in DOMAIN last' /\ steps' # steps)
       => /\ last'.ret \notin DOMAIN bookings
          /\ DOMAIN bookings' = DOMAIN bookings \cup {last'.ret}
          /\ Qty(bookings'[last'.ret]) = last'.n
          /\ \A b \in DOMAIN bookings : bookings'[b] = bookings[b]
          /\ concerts' = concerts]_vars

(* After the failed decrement of a booking of a stored concert the concert  *)
(* shows more seats than its total less the seats booked                   *)
C27_Witness ==
    /\ "failed" \in DOMAIN last
    /\ last.id \in DOMAIN concerts
    /\ last.n > 0
    /\ concerts[last.id].available_seats
           > concerts[last.id].total_seats - SumQty(BookingsOf(last.id))

(* C26: booking creations against the same concert are not serialized:     *)
(* two interleaved creations can both pass the availability check before   *)
(* either decrement is written, so a state with available_seats < 0 is     *)
(* reachable although each request alone asked for no more than the seats  *)
(* available when it looked.                                               *)
C26_EachCreationPassedItsCheck ==
    \A t \in Workers :
        threads[t].pc \in {"add_insert", "add_inc"}
        => threads[t].req.n <= threads[t].concert.available_seats

(* Both workers have finished a creation of a positive number of seats for  *)
(* the same concert and the concert is left with fewer than zero seats     *)
C26_Witness ==
    /\ Quiescent
    /\ last.op = "add_booking"
    /\ last.flash = "confirmed"
    /\ last.id \in DOMAIN concerts
    /\ concerts[last.id].available_seats < 0
    /\ Cardinality(BookingsOf(last.id)) = 2
    /\ \A b \in BookingsOf(last.id) :
           /\ bookings[b].num_tickets >= 1
           /\ bookings[b].num_tickets <= concerts[last.id].total_seats
    /\ SumQty(BookingsOf(last.id)) > concerts[last.id].total_seats

(* C29: a booking's seats are returned to its concert at most once: a      *)
(* delete request whose booking no longer exists changes no concert's      *)
(* available_seats, also when two delete requests for the same booking     *)
(* interleave, both reading the booking before either deletes it.          *)
C29_SeatsReturnedOnce ==
    [][\A t \in Workers :
          (/\ threads[t].pc = "delete_inc"
           /\ threads'[t].pc = "idle"
           /\ threads[t].deleted_count = 0)
          => concerts' = concerts]_vars

(* C30: when an edit of a booking interleaves with another edit or with a  *)
(* delete of the same booking, after both requests have finished           *)
(* available_seats plus the sum of num_tickets over the concert's existing *)
(* bookings is what it was before them: the concert's seat count.          *)
C30_InterleavedEditConserves ==
    Quiescent
    => \A c \in DOMAIN concerts :
           concerts[c].available_seats + SumQty(BookingsOf(c)) = concerts[c].total_seats

====
